---- MODULE Spec2Model ----
(***************************************************************************)
(* Model of tools/bisection-search/common.py: the host and device test     *)
(* environments (HostTestEnv, DeviceTestEnv), the command runner           *)
(* (_RunCommandForOutputAndLog) and the dex cache invalidation.            *)
(*                                                                         *)
(* Text is a sequence of string pieces; a path is the sequence of its      *)
(* components; a dict is a function from variable names to text.           *)
(***************************************************************************)
EXTENDS Integers, Sequences, FiniteSets, TLC

VARIABLES
  kind,       \* "none" | "host" | "device" | "failed": which environment was constructed
  error,      \* the exception the last operation raised, "" when it returned
  osenv,      \* os.environ of the driving process
  shell_env,  \* self._shell_env
  hostdirs,   \* directories existing on the host under /tmp
  hostfiles,  \* regular files of the host scratch directory: path -> content
  devdirs,    \* directories existing on the device
  devfiles,   \* regular files of the device scratch directory: path -> content
  cache,      \* arch -> entries directly inside that architecture cache directory
  logpath,    \* path of the open log file, <<>> when none was opened
  logdisk,    \* what the log file holds on disk, in file order
  logbuf,     \* what was written through self._logfile and is still in its buffer
  calls,      \* number of operations issued on the instance so far
  returned,   \* the paths CreateFile returned, in call order
  last        \* what the last operation was given and what it did

vars == <<kind, error, osenv, shell_env, hostdirs, hostfiles, devdirs, devfiles,
          cache, logpath, logdisk, logbuf, calls, returned, last>>

(***************************************************************************)
(* Bounds of the model.                                                    *)
(***************************************************************************)
MaxCalls == 4

(***************************************************************************)
(* Program constants.                                                      *)
(***************************************************************************)
DEVICE_TMP_PATH == <<"data", "local", "tmp">>
DALVIK_CACHE_ARCHS == <<"arm", "arm64", "x86", "x86_64">>
SyntheticFailureCode == 1

Archs == {DALVIK_CACHE_ARCHS[i] : i \in DOMAIN DALVIK_CACHE_ARCHS}

\* mkdtemp(dir='/tmp/', prefix='bisection_search_'): the one directory of this instance
HostEnvPath == <<"tmp", "bisection_search_0">>
Basename(path) == path[Len(path)]
DeviceEnvPath == DEVICE_TMP_PATH \o <<Basename(HostEnvPath)>>

EmptyDict == [v \in {} |-> <<>>]
EmptyFiles == [p \in {} |-> <<>>]

\* '{0}/dalvik-cache/{1}'.format(android_data_path, arch) for arch in DALVIK_CACHE_ARCHS
DexArchCachePaths(android_data_path) ==
  [i \in DOMAIN DALVIK_CACHE_ARCHS |->
     android_data_path \o <<"dalvik-cache", DALVIK_CACHE_ARCHS[i]>>]

CachePathSet(android_data_path) ==
  {DexArchCachePaths(android_data_path)[i] : i \in DOMAIN DALVIK_CACHE_ARCHS}

\* os.environ.get(variable_name); None raises FatalError
GetEnvVariableOrError(env, variable_name) ==
  IF variable_name \in DOMAIN env
    THEN [raised |-> "", value |-> env[variable_name]]
    ELSE [raised |-> "FatalError", value |-> <<>>]

\* dict.update / item assignment on a copy
DictUpdate(base, updates) ==
  [v \in DOMAIN base \cup DOMAIN updates |->
     IF v \in DOMAIN updates THEN updates[v] ELSE base[v]]

DictSet(base, var, val) == DictUpdate(base, [v \in {var} |-> val])

\* str(int) for the exit statuses the model uses
IntToText(n) ==
  CASE n = 0 -> "0" [] n = 1 -> "1" [] n = 2 -> "2" [] n = 255 -> "255"
    [] n = -9 -> "-9" [] OTHER -> "?"

RECURSIVE JoinText(_, _)
\* sep.join(parts) for a sequence of texts
JoinText(parts, sep) ==
  IF parts = <<>> THEN <<>>
  ELSE IF Len(parts) = 1 THEN parts[1]
  ELSE parts[1] \o <<sep>> \o JoinText(Tail(parts), sep)

\* ' '.join(['"{0}"'.format(segment) for segment in cmd])
CommandListToCommandString(cmd) ==
  JoinText([i \in DOMAIN cmd |-> <<"\"">> \o cmd[i] \o <<"\"">>], " ")

NoLast ==
  [op |-> "none", name |-> "", path |-> <<>>, lines |-> <<>>,
   given |-> EmptyDict, after |-> EmptyDict, env |-> EmptyDict, seen |-> EmptyDict,
   ran |-> FALSE, timeouted |-> FALSE, returncode |-> 0, ret |-> 0, output |-> <<>>,
   before |-> [a \in Archs |-> {}], atstart |-> [a \in Archs |-> {}],
   pushed |-> <<>>, prior |-> EmptyFiles, earlier |-> {}, produced |-> <<>>]

(***************************************************************************)
(* Construction.                                                           *)
(***************************************************************************)
HostLib(x64) == IF x64 THEN "lib64" ELSE "lib"

\* lines 193-200: the overlay of environment-specific bindings on os.environ.copy()
HostShellEnv(env, android_root, x64) ==
  LET library_path == android_root \o <<"/", HostLib(x64)>>
      path == android_root \o <<"/bin">>
      e1 == DictSet(env, "ANDROID_DATA", HostEnvPath)
      e2 == DictSet(e1, "ANDROID_ROOT", android_root)
      e3 == DictSet(e2, "LD_LIBRARY_PATH", library_path)
      e4 == DictSet(e3, "DYLD_LIBRARY_PATH", library_path)
      e5 == DictSet(e4, "PATH", path \o <<":">> \o e4["PATH"])
  IN DictSet(e5, "LD_USE_LOAD_BIAS", <<"1">>)

\* The directories and the log the constructor has made by line 188
HostScratchDirs == {HostEnvPath, HostEnvPath \o <<"dalvik-cache">>} \cup CachePathSet(HostEnvPath)

HostInit(x64) ==
  /\ kind = "none"
  /\ hostdirs' = HostScratchDirs
  /\ logpath' = HostEnvPath \o <<"log">>
  /\ LET root == GetEnvVariableOrError(osenv, "ANDROID_HOST_OUT") IN
       IF root.raised # ""
         THEN /\ kind' = "failed"
              /\ error' = root.raised
              /\ shell_env' = EmptyDict
         ELSE IF "PATH" \notin DOMAIN osenv
           THEN /\ kind' = "failed"
                /\ error' = "KeyError"
                /\ shell_env' = EmptyDict
           ELSE /\ kind' = "host"
                /\ error' = ""
                /\ shell_env' = HostShellEnv(osenv, root.value, x64)
  /\ last' = [NoLast EXCEPT !.op = "HostInit"]
  /\ UNCHANGED <<osenv, hostfiles, devdirs, devfiles, cache, logdisk, logbuf,
                 calls, returned>>

DeviceScratchDirs ==
  {SubSeq(DeviceEnvPath, 1, n) : n \in 1..Len(DeviceEnvPath)}
    \cup {DeviceEnvPath \o <<"dalvik-cache">>} \cup CachePathSet(DeviceEnvPath)

\* adb_ok: whether the adb transport reaches a device (check_call raises otherwise)
DeviceInit(adb_ok) ==
  /\ kind = "none"
  /\ hostdirs' = {HostEnvPath}
  /\ logpath' = HostEnvPath \o <<"log">>
  /\ shell_env' = osenv
  /\ IF adb_ok
       THEN /\ kind' = "device"
            /\ error' = ""
            /\ devdirs' = DeviceScratchDirs
       ELSE /\ kind' = "failed"
            /\ error' = "CalledProcessError"
            /\ devdirs' = {}
  /\ last' = [NoLast EXCEPT !.op = "DeviceInit"]
  /\ UNCHANGED <<osenv, hostfiles, devfiles, cache, logdisk, logbuf, calls, returned>>

Init0(OsEnvs) ==
  /\ kind = "none"
  /\ error = ""
  /\ osenv \in OsEnvs
  /\ shell_env = EmptyDict
  /\ hostdirs = {}
  /\ hostfiles = EmptyFiles
  /\ devdirs = {}
  /\ devfiles = EmptyFiles
  /\ cache = [a \in Archs |-> {}]
  /\ logpath = <<>>
  /\ logdisk = <<>>
  /\ logbuf = <<>>
  /\ calls = 0
  /\ returned = <<>>
  /\ last = NoLast

(***************************************************************************)
(* The log: self._logfile is a buffered Python file object (open(..., 'w+'))*)
(* whose write() keeps the text in the object's buffer until the buffer    *)
(* overflows; a child process given stdout=self._logfile writes through    *)
(* the file descriptor, at the descriptor's offset, past the buffer.  An   *)
(* entry is the unit of the model: [call, via, text].                      *)
(***************************************************************************)
\* logfile.write(text): buffered; a write that overflows the buffer drains it to the file
LogWrite(log, entry, overflow) ==
  IF overflow
    THEN [disk |-> log.disk \o Append(log.buf, entry), buf |-> <<>>]
    ELSE [disk |-> log.disk, buf |-> Append(log.buf, entry)]

\* what a child process started with stdout=self._logfile, stderr=self._logfile prints
ChildWrite(log, entries) ==
  [disk |-> log.disk \o entries, buf |-> log.buf]

ChildEntry(callno, text) == [call |-> callno, via |-> "child", text |-> text]

\* 'TIMEOUT' if timeouted else proc.returncode, as formatted into the transcript
TranscriptStatus(timeouted, returncode) ==
  IF timeouted THEN "TIMEOUT" ELSE IntToText(returncode)

\* 'Command:\n{0}\n{1}\nReturn code: {2}\n'.format(...)
Transcript(cmd, output, timeouted, returncode) ==
  <<"Command:\n">> \o CommandListToCommandString(cmd) \o <<"\n">> \o output
    \o <<"\n", "Return code: ", TranscriptStatus(timeouted, returncode), "\n">>

\* A faulty variant of RetCode: the status of the killed process is returned as it is
RetCodeOfProcess(timeouted, returncode) == returncode

\* ret_code = 1 if timeouted else proc.returncode
RetCode(timeouted, returncode) ==
  IF timeouted THEN SyntheticFailureCode ELSE returncode

\* A faulty variant of RunnerWrites: the timeout path returns before the transcript
RunnerWritesUnlessTimeout(callno, cmd, outcome) ==
  IF outcome.timeout THEN <<>>
  ELSE <<[call |-> callno, via |-> "handle",
          text |-> Transcript(cmd, outcome.output, outcome.timeout, outcome.returncode)]>>

\* The entries one invocation of the runner writes through the handle
RunnerWrites(callno, cmd, outcome) ==
  <<[call |-> callno, via |-> "handle",
     text |-> Transcript(cmd, outcome.output, outcome.timeout, outcome.returncode)]>>

RECURSIVE LogWriteAll(_, _, _)
LogWriteAll(log, entries, overflow) ==
  IF entries = <<>> THEN log
  ELSE LogWriteAll(LogWrite(log, Head(entries), overflow), Tail(entries), overflow)

\* _RunCommandForOutputAndLog: outcome is what the spawned process did within the
\* timeout: [timeout, returncode, output, big]; big: the transcript overflows the buffer
RunCommandForOutputAndLog(log, callno, cmd, outcome) ==
  [log |-> LogWriteAll(log, RunnerWrites(callno, cmd, outcome), outcome.big),
   output |-> outcome.output,
   ret_code |-> RetCode(outcome.timeout, outcome.returncode),
   raised |-> ""]

(***************************************************************************)
(* Cache invalidation.  A cache entry is [name, type]: name a sequence of  *)
(* characters, type "file" or "dir".                                       *)
(***************************************************************************)
\* os.path.isfile(file_path)
IsFile(entry) == entry.type = "file"

\* HostTestEnv._EmptyDexCache: unlink every listed entry that is a regular file
HostEmptyDexCache(c) == [a \in Archs |-> {e \in c[a] : ~IsFile(e)}]

\* The shell's expansion of "<dir>"/*: the names that do not start with a dot
GlobStar(entries) == {e \in entries : e.name[1] # "."}

\* rm -f on the expansion: regular files go, a directory is refused with a message
\* and exit status 1
DeviceRm(entries) ==
  LET matched == GlobStar(entries) IN
    [left |-> entries \ {e \in matched : IsFile(e)},
     failed |-> \E e \in matched : ~IsFile(e)]

RECURSIVE DeviceEmptyFrom(_, _, _, _)
\* DeviceTestEnv._EmptyDexCache from the i-th architecture on; adb_status: whether
\* adb shell exits with the remote command's status (check_call raises on non-zero)
DeviceEmptyFrom(i, c, adb_status, callno) ==
  IF i > Len(DALVIK_CACHE_ARCHS) THEN [cache |-> c, raised |-> "", printed |-> <<>>]
  ELSE
    LET a == DALVIK_CACHE_ARCHS[i]
        r == DeviceRm(c[a])
        c1 == [c EXCEPT ![a] = r.left]
        msg == IF r.failed
                 THEN <<ChildEntry(callno, <<"rm: ", a, ": is a directory\n">>)>>
                 ELSE <<>>
    IN IF r.failed /\ adb_status
         THEN [cache |-> c1, raised |-> "CalledProcessError", printed |-> msg]
         ELSE LET rest == DeviceEmptyFrom(i + 1, c1, adb_status, callno) IN
                [rest EXCEPT !.printed = msg \o rest.printed]

DeviceEmptyDexCache(c, adb_status, callno) == DeviceEmptyFrom(1, c, adb_status, callno)

\* What the command under test leaves in the cache it compiles into
ApplyEffect(c, effect) == [c EXCEPT ![effect.arch] = @ \cup effect.entries]

(***************************************************************************)
(* RunCommand.  env_updates is [given, map]: given = FALSE is None.        *)
(***************************************************************************)
\* "if not env_updates": None and the empty dict are falsy
Falsy(env_updates) == ~env_updates.given \/ DOMAIN env_updates.map = {}

\* A faulty variant of HostCommandEnv: the stored environment is laid over the overrides
HostCommandEnvBaseWins(base, updates) == DictUpdate(updates, base)

\* env = self._shell_env.copy(); env.update(env_updates)
HostCommandEnv(base, updates) == DictUpdate(base, updates)

HostRunCommand(cmd, env_updates, outcome, effect) ==
  /\ kind = "host"
  /\ calls < MaxCalls
  /\ LET callno == calls + 1
         updates == IF Falsy(env_updates) THEN EmptyDict ELSE env_updates.map
         atstart == HostEmptyDexCache(cache)
         env == HostCommandEnv(shell_env, updates)
         r == RunCommandForOutputAndLog([disk |-> logdisk, buf |-> logbuf],
                                        callno, cmd, outcome)
     IN /\ calls' = callno
        /\ cache' = ApplyEffect(atstart, effect)
        /\ logdisk' = r.log.disk
        /\ logbuf' = r.log.buf
        /\ error' = r.raised
        /\ last' = [NoLast EXCEPT !.op = "RunCommand",
                                  !.given = env_updates.map,
                                  !.after = env_updates.map,
                                  !.env = env, !.seen = env,
                                  !.ran = TRUE,
                                  !.timeouted = outcome.timeout,
                                  !.returncode = outcome.returncode,
                                  !.ret = r.ret_code,
                                  !.output = r.output,
                                  !.produced = outcome.output,
                                  !.before = cache, !.atstart = atstart]
  /\ UNCHANGED <<kind, osenv, shell_env, hostdirs, hostfiles, devdirs, devfiles,
                 logpath, returned>>

\* The environment of the shell adb connects to
DeviceShellEnv == [PATH |-> <<"/system/bin">>, ANDROID_DATA |-> <<"/data">>]

\* The names of a dict in the order its items are joined
VarOrder == <<"ANDROID_DATA", "ANDROID_ROOT", "LANG", "PATH">>

RECURSIVE Assignments(_, _)
\* ['{0}={1}'.format(var, val) for var, val in env_updates.items()] from the i-th name on
Assignments(updates, i) ==
  IF i > Len(VarOrder) THEN <<>>
  ELSE IF VarOrder[i] \in DOMAIN updates
    THEN <<(<<VarOrder[i], "=">> \o updates[VarOrder[i]])>> \o Assignments(updates, i + 1)
    ELSE Assignments(updates, i + 1)

\* shlex.split of 'adb shell "logcat -c && {0} {1} ; logcat -d ... 1>&2"': the quotes
\* of the quoted command close and reopen the outer ones, leaving three arguments
DeviceArgv(updates, cmd) ==
  << <<"adb">>, <<"shell">>,
     <<"logcat -c && ">> \o JoinText(Assignments(updates, 1), " ") \o <<" ">>
       \o JoinText(cmd, " ")
       \o <<" ; logcat -d -s dex2oat:* dex2oatd:*| grep -v ^--------- 1>&2">> >>

\* if 'ANDROID_DATA' not in env_updates: env_updates['ANDROID_DATA'] = self._device_env_path
DeviceUpdates(updates) ==
  IF "ANDROID_DATA" \notin DOMAIN updates
    THEN DictSet(updates, "ANDROID_DATA", DeviceEnvPath)
    ELSE updates

\* The caller's dict after the call: the item assignment acts on the caller's object
\* unless "env_updates = {}" rebound the name first
CallerMapAfter(env_updates) ==
  IF Falsy(env_updates) THEN env_updates.map ELSE DeviceUpdates(env_updates.map)

\* The inline assignments prefixed to the command, over the remote shell's environment
RemoteCommandEnv(updates) == DictUpdate(DeviceShellEnv, updates)

DeviceRunCommand(cmd, env_updates, outcome, effect, adb_status) ==
  /\ kind = "device"
  /\ calls < MaxCalls
  /\ LET callno == calls + 1
         given == IF Falsy(env_updates) THEN EmptyDict ELSE env_updates.map
         inv == DeviceEmptyDexCache(cache, adb_status, callno)
         log1 == ChildWrite([disk |-> logdisk, buf |-> logbuf], inv.printed)
         updates == DeviceUpdates(given)
         r == RunCommandForOutputAndLog(log1, callno, DeviceArgv(updates, cmd), outcome)
     IN /\ calls' = callno
        /\ IF inv.raised # ""
             THEN /\ cache' = inv.cache
                  /\ logdisk' = log1.disk
                  /\ logbuf' = log1.buf
                  /\ error' = inv.raised
                  /\ last' = [NoLast EXCEPT !.op = "RunCommand",
                                            !.given = env_updates.map,
                                            !.after = env_updates.map,
                                            !.before = cache, !.atstart = inv.cache]
             ELSE /\ cache' = ApplyEffect(inv.cache, effect)
                  /\ logdisk' = r.log.disk
                  /\ logbuf' = r.log.buf
                  /\ error' = r.raised
                  /\ last' = [NoLast EXCEPT !.op = "RunCommand",
                                            !.given = env_updates.map,
                                            !.after = CallerMapAfter(env_updates),
                                            !.env = shell_env,
                                            !.seen = RemoteCommandEnv(updates),
                                            !.ran = TRUE,
                                            !.timeouted = outcome.timeout,
                                            !.returncode = outcome.returncode,
                                            !.ret = r.ret_code,
                                            !.output = r.output,
                                            !.produced = outcome.output,
                                            !.before = cache, !.atstart = inv.cache]
  /\ UNCHANGED <<kind, osenv, shell_env, hostdirs, hostfiles, devdirs, devfiles,
                 logpath, returned>>

(***************************************************************************)
(* CreateFile, WriteLines, PushClasspath.                                  *)
(***************************************************************************)
RECURSIVE FormatLines(_)
\* f.writelines('{0}\n'.format(line) for line in lines): the characters written
FormatLines(lines) ==
  IF lines = <<>> THEN <<>>
  ELSE Head(lines) \o <<"\n">> \o FormatLines(Tail(lines))

\* A faulty variant of WriteFile: the file is opened for appending
WriteFileAppend(files, path, content) ==
  [p \in DOMAIN files \cup {path} |->
     IF p = path
       THEN (IF p \in DOMAIN files THEN files[p] ELSE <<>>) \o content
       ELSE files[p]]

\* open(path, 'w') / open(path, 'w+') followed by the writes: the file holds content
WriteFile(files, path, content) ==
  [p \in DOMAIN files \cup {path} |-> IF p = path THEN content ELSE files[p]]

Range(s) == {s[i] : i \in DOMAIN s}

\* NamedTemporaryFile(dir=self._env_path, delete=False): a name no entry of dir has
FreshIn(files, dirs, dir, tmp) ==
  (dir \o <<tmp>>) \notin DOMAIN files /\ (dir \o <<tmp>>) \notin dirs

\* HostTestEnv.CreateFile; name = "" is None, tmp the name tempfile draws
HostCreateFile(name, tmp) ==
  /\ kind = "host"
  /\ calls < MaxCalls
  /\ name = "" => FreshIn(hostfiles, hostdirs, HostEnvPath, tmp)
  /\ LET path == HostEnvPath \o <<IF name = "" THEN tmp ELSE name>>
         isdir == path \in hostdirs
     IN /\ calls' = calls + 1
        /\ error' = IF isdir THEN "IsADirectoryError" ELSE ""
        /\ hostfiles' = IF isdir THEN hostfiles ELSE WriteFile(hostfiles, path, <<>>)
        /\ returned' = IF isdir THEN returned ELSE Append(returned, path)
        /\ last' = [NoLast EXCEPT !.op = "CreateFile", !.name = name,
                                  !.path = IF isdir THEN <<>> ELSE path,
                                  !.pushed = IF isdir THEN <<>> ELSE path,
                                  !.prior = hostfiles,
                                  !.earlier = Range(returned)]
  /\ UNCHANGED <<kind, osenv, shell_env, hostdirs, devdirs, devfiles, cache,
                 logpath, logdisk, logbuf>>

\* HostTestEnv.WriteLines
HostWriteLines(file_path, lines) ==
  /\ kind = "host"
  /\ calls < MaxCalls
  /\ calls' = calls + 1
  /\ error' = IF file_path \in hostdirs THEN "IsADirectoryError" ELSE ""
  /\ hostfiles' = IF file_path \in hostdirs THEN hostfiles
                  ELSE WriteFile(hostfiles, file_path, FormatLines(lines))
  /\ last' = [NoLast EXCEPT !.op = "WriteLines", !.path = file_path,
                            !.lines = lines, !.prior = hostfiles]
  /\ UNCHANGED <<kind, osenv, shell_env, hostdirs, devdirs, devfiles, cache,
                 logpath, logdisk, logbuf, returned>>

\* Where 'adb push "{what}" "{where}"' puts the file: inside where when where is a
\* directory of the device, at where otherwise
PushTarget(dirs, what, where) ==
  IF where \in dirs THEN where \o <<Basename(what)>> ELSE where

\* The transfer summary adb push prints
PushSummary(callno, what) ==
  <<ChildEntry(callno, <<Basename(what), ": 1 file pushed\n">>)>>

\* DeviceTestEnv.CreateFile; tmp the name of the local NamedTemporaryFile, which is
\* deleted when the with block ends
DeviceCreateFile(name, tmp) ==
  /\ kind = "device"
  /\ calls < MaxCalls
  /\ LET callno == calls + 1
         what == <<"tmp", tmp>>
         target == PushTarget(devdirs, what, DeviceEnvPath)
         path == DeviceEnvPath \o <<IF name = "" THEN Basename(what) ELSE name>>
         log1 == ChildWrite([disk |-> logdisk, buf |-> logbuf], PushSummary(callno, what))
     IN /\ calls' = callno
        /\ error' = ""
        /\ devfiles' = WriteFile(devfiles, target, <<>>)
        /\ logdisk' = log1.disk
        /\ logbuf' = log1.buf
        /\ returned' = Append(returned, path)
        /\ last' = [NoLast EXCEPT !.op = "CreateFile", !.name = name, !.path = path,
                                  !.pushed = target, !.prior = devfiles,
                                  !.earlier = Range(returned)]
  /\ UNCHANGED <<kind, osenv, shell_env, hostdirs, hostfiles, devdirs, cache, logpath>>

\* DeviceTestEnv.WriteLines
DeviceWriteLines(file_path, lines, tmp) ==
  /\ kind = "device"
  /\ calls < MaxCalls
  /\ LET callno == calls + 1
         what == <<"tmp", tmp>>
         target == PushTarget(devdirs, what, file_path)
         log1 == ChildWrite([disk |-> logdisk, buf |-> logbuf], PushSummary(callno, what))
     IN /\ calls' = callno
        /\ error' = ""
        /\ devfiles' = WriteFile(devfiles, target, FormatLines(lines))
        /\ logdisk' = log1.disk
        /\ logbuf' = log1.buf
        /\ last' = [NoLast EXCEPT !.op = "WriteLines", !.path = file_path,
                                  !.lines = lines, !.pushed = target,
                                  !.prior = devfiles]
  /\ UNCHANGED <<kind, osenv, shell_env, hostdirs, hostfiles, devdirs, cache,
                 logpath, returned>>

RECURSIVE PushAll(_, _, _, _)
\* The loop of PushClasspath: every path of the classpath is pushed into the scratch
\* directory; a classpath entry is [path, content]
PushAll(files, log, callno, paths) ==
  IF paths = <<>> THEN [files |-> files, log |-> log]
  ELSE PushAll(WriteFile(files, PushTarget(devdirs, Head(paths).path, DeviceEnvPath),
                         Head(paths).content),
               ChildWrite(log, PushSummary(callno, Head(paths).path)),
               callno, Tail(paths))

\* DeviceTestEnv.PushClasspath
PushClasspath(classpath) ==
  /\ kind = "device"
  /\ calls < MaxCalls
  /\ LET callno == calls + 1
         r == PushAll(devfiles, [disk |-> logdisk, buf |-> logbuf], callno, classpath)
     IN /\ calls' = callno
        /\ error' = ""
        /\ devfiles' = r.files
        /\ logdisk' = r.log.disk
        /\ logbuf' = r.log.buf
        /\ last' = [NoLast EXCEPT !.op = "PushClasspath",
                                  !.output = JoinText([i \in DOMAIN classpath |->
                                      DeviceEnvPath \o <<Basename(classpath[i].path)>>], ":"),
                                  !.prior = devfiles]
  /\ UNCHANGED <<kind, osenv, shell_env, hostdirs, hostfiles, devdirs, cache,
                 logpath, returned>>

(***************************************************************************)
(* Inputs.  I is a record of the sets the operations' arguments and the    *)
(* outcomes of the processes they start are drawn from.                    *)
(***************************************************************************)
FullOsEnv ==
  [ANDROID_HOST_OUT |-> <<"/out/host">>, PATH |-> <<"/usr/bin">>,
   ANDROID_DATA |-> <<"/inherited/data">>, LANG |-> <<"C">>]

Restrict(f, S) == [v \in DOMAIN f \cap S |-> f[v]]

AllOsEnvs ==
  {Restrict(FullOsEnv, S) : S \in {DOMAIN FullOsEnv,
                                   DOMAIN FullOsEnv \ {"ANDROID_HOST_OUT"},
                                   DOMAIN FullOsEnv \ {"PATH"},
                                   DOMAIN FullOsEnv \ {"ANDROID_DATA", "LANG"}}}

Override == [ANDROID_DATA |-> <<"/override/data">>, LANG |-> <<"fr">>]

NoUpdates == {[given |-> FALSE, map |-> EmptyDict]}

AllUpdates ==
  NoUpdates \cup {[given |-> TRUE, map |-> Restrict(Override, S)] : S \in SUBSET DOMAIN Override}

OneOutcome == {[timeout |-> FALSE, returncode |-> 0, output |-> <<"ok\n">>, big |-> FALSE]}

\* -9: the status of a process that was killed; big: a transcript larger than the buffer
AllOutcomes ==
  [timeout : BOOLEAN, returncode : {0, 2, -9}, output : {<<"ok\n">>}, big : {FALSE}]
    \cup [timeout : {FALSE}, returncode : {0}, output : {<<"ok\n", "more\n">>}, big : {TRUE}]

NoEffect == {[arch |-> "arm", entries |-> {}]}

RegularEntry == [name |-> <<"b", "o", "o", "t">>, type |-> "file"]
HiddenEntry == [name |-> <<".", "l", "o", "c", "k">>, type |-> "file"]
DirEntry == [name |-> <<"s", "u", "b">>, type |-> "dir"]

AllEffects ==
  {[arch |-> "arm", entries |-> {RegularEntry, DirEntry}],
   [arch |-> "arm64", entries |-> {HiddenEntry, DirEntry}],
   [arch |-> "x86", entries |-> {RegularEntry}],
   [arch |-> "x86_64", entries |-> {RegularEntry, HiddenEntry}]}

OneCmd == {<< <<"dalvikvm">>, <<"Main">> >>}

OneClasspath == {<<[path |-> <<"out", "a.jar">>, content |-> <<"jar">>]>>}

OneLines == {<< <<"a">> >>}

AllLines == {<<>>, << <<>> >>, << <<"a">>, <<"b", "b">>, <<"c">> >>}

Next0(I) ==
  \/ \E x64 \in BOOLEAN : HostInit(x64)
  \/ \E adb_ok \in BOOLEAN : DeviceInit(adb_ok)
  \/ \E cmd \in I.cmds, u \in I.updates, o \in I.outcomes, e \in I.effects :
       HostRunCommand(cmd, u, o, e)
  \/ \E cmd \in I.cmds, u \in I.updates, o \in I.outcomes, e \in I.effects,
        adb_status \in BOOLEAN :
       DeviceRunCommand(cmd, u, o, e, adb_status)
  \/ \E name \in I.names \cup {""}, tmp \in I.tmps : HostCreateFile(name, tmp)
  \/ \E file_path \in Range(returned), lines \in I.lines : HostWriteLines(file_path, lines)
  \/ \E name \in I.names \cup {""}, tmp \in I.tmps : DeviceCreateFile(name, tmp)
  \/ \E file_path \in Range(returned), lines \in I.lines, tmp \in I.tmps :
       DeviceWriteLines(file_path, lines, tmp)
  \/ \E classpath \in I.classpaths : PushClasspath(classpath)

\* Spec: the process environment and the override maps vary
EnvInputs ==
  [osenvs |-> AllOsEnvs, cmds |-> OneCmd, updates |-> AllUpdates,
   outcomes |-> OneOutcome, effects |-> NoEffect,
   names |-> {"input.txt"}, tmps |-> {"tmpa"}, lines |-> OneLines,
   classpaths |-> OneClasspath]

Init == Init0(EnvInputs.osenvs)
Next == Next0(EnvInputs)
Spec == Init /\ [][Next]_vars

\* SpecRun: the outcome of the command under test varies
RunInputs ==
  [osenvs |-> {FullOsEnv}, cmds |-> OneCmd, updates |-> NoUpdates,
   outcomes |-> AllOutcomes, effects |-> NoEffect,
   names |-> {"input.txt"}, tmps |-> {"tmpa"}, lines |-> OneLines,
   classpaths |-> OneClasspath]

InitRun == Init0(RunInputs.osenvs)
NextRun == Next0(RunInputs)
SpecRun == InitRun /\ [][NextRun]_vars

\* SpecCache: what the command under test leaves in the cache directories varies
CacheInputs ==
  [osenvs |-> {FullOsEnv}, cmds |-> OneCmd, updates |-> NoUpdates,
   outcomes |-> OneOutcome, effects |-> AllEffects,
   names |-> {"input.txt"}, tmps |-> {"tmpa"}, lines |-> OneLines,
   classpaths |-> OneClasspath]

InitCache == Init0(CacheInputs.osenvs)
NextCache == Next0(CacheInputs)
SpecCache == InitCache /\ [][NextCache]_vars

\* SpecFiles: file names, generated names and written lines vary
FileInputs ==
  [osenvs |-> {FullOsEnv}, cmds |-> OneCmd, updates |-> NoUpdates,
   outcomes |-> OneOutcome, effects |-> NoEffect,
   names |-> {"input.txt"}, tmps |-> {"tmpa", "tmpb"}, lines |-> AllLines,
   classpaths |-> OneClasspath]

InitFiles == Init0(FileInputs.osenvs)
NextFiles == Next0(FileInputs)
SpecFiles == InitFiles /\ [][NextFiles]_vars

(***************************************************************************)
(* Properties.                                                             *)
(***************************************************************************)
Files == IF kind = "device" THEN devfiles ELSE hostfiles

\* The log as the handle and the child processes wrote it, pending text included
LogAll == logdisk \o logbuf

RanCommand == last.op = "RunCommand" /\ last.ran

IsPrefix(p, q) == Len(p) <= Len(q) /\ SubSeq(q, 1, Len(p)) = p

RECURSIVE SplitFrom(_, _)
SplitFrom(content, cur) ==
  IF content = <<>> THEN (IF cur = <<>> THEN <<>> ELSE <<cur \o <<"<unterminated>">>>>)
  ELSE IF Head(content) = "\n" THEN <<cur>> \o SplitFrom(Tail(content), <<>>)
  ELSE SplitFrom(Tail(content), Append(cur, Head(content)))

\* The lines a reader of the file gets, each ended by its terminator
ReadLines(content) == SplitFrom(content, <<>>)

\* C1: when the command of a RunCommand call starts, no regular file sits directly
\* inside any architecture cache directory, and every subdirectory that was inside a
\* cache directory before the call is still there (host and device).
C1_CacheEmptyAtCommandStart ==
  RanCommand =>
    \A a \in Archs :
      /\ \A e \in last.atstart[a] : ~IsFile(e)
      /\ {e \in last.before[a] : ~IsFile(e)} \subseteq last.atstart[a]

BlocksOf(callno) ==
  {i \in DOMAIN LogAll : LogAll[i].call = callno /\ LogAll[i].via = "handle"}

StatusLineOf(text) == SubSeq(text, Len(text) - 2, Len(text))

\* C3: every invocation of the command runner leaves exactly one transcript block in
\* the log, on success, failure and timeout; the block's last line reports TIMEOUT if
\* and only if the command timed out, and the numeric return code otherwise.
C3_OneTranscriptBlock ==
  /\ RanCommand =>
       /\ Cardinality(BlocksOf(calls)) = 1
       /\ \A i \in BlocksOf(calls) :
            /\ LogAll[i].text[1] = "Command:\n"
            /\ StatusLineOf(LogAll[i].text) =
                 <<"Return code: ",
                   IF last.timeouted THEN "TIMEOUT" ELSE IntToText(last.returncode),
                   "\n">>
            /\ (StatusLineOf(LogAll[i].text)[2] = "TIMEOUT") <=> last.timeouted
  /\ ~RanCommand => BlocksOf(calls) = {}

C3_Witness ==
  /\ RanCommand
  /\ last.timeouted
  /\ calls = 2
  /\ \E i \in BlocksOf(calls) : StatusLineOf(LogAll[i].text)[2] = "TIMEOUT"
  /\ \E i \in BlocksOf(1) : StatusLineOf(LogAll[i].text)[2] = "2"

\* C4: the log file is ordered by call sequence: what an earlier operation wrote,
\* through the handle or through a child process, is in the file before what a later
\* operation wrote.
C4_LogOrderedByCall ==
  \A i, j \in DOMAIN logdisk : i < j => logdisk[i].call <= logdisk[j].call

HostBound ==
  {"ANDROID_DATA", "ANDROID_ROOT", "LD_LIBRARY_PATH", "DYLD_LIBRARY_PATH", "PATH",
   "LD_USE_LOAD_BIAS"}

\* The values the bindings of a host environment may have, from os.environ alone
HostBinding(v) ==
  LET root == osenv["ANDROID_HOST_OUT"] IN
  CASE v = "ANDROID_DATA" -> {HostEnvPath}
    [] v = "ANDROID_ROOT" -> {root}
    [] v \in {"LD_LIBRARY_PATH", "DYLD_LIBRARY_PATH"} ->
         {root \o <<"/", "lib">>, root \o <<"/", "lib64">>}
    [] v = "PATH" -> {root \o <<"/bin", ":">> \o osenv["PATH"]}
    [] v = "LD_USE_LOAD_BIAS" -> {<<"1">>}

Bound == IF kind = "host" THEN HostBound ELSE {"ANDROID_DATA"}

Binding(v) == IF kind = "host" THEN HostBinding(v) ELSE {DeviceEnvPath}

AllVarNames == DOMAIN FullOsEnv \cup HostBound \cup DOMAIN Override \cup DOMAIN DeviceShellEnv

\* The tiers above the inherited one: per-call override, then environment binding
UpperTiers(v) ==
  /\ v \in DOMAIN last.given => v \in DOMAIN last.seen /\ last.seen[v] = last.given[v]
  /\ v \in Bound \ DOMAIN last.given => v \in DOMAIN last.seen /\ last.seen[v] \in Binding(v)

DeviceDataRule ==
  kind = "device" =>
    (last.seen["ANDROID_DATA"] = DeviceEnvPath <=> "ANDROID_DATA" \notin DOMAIN last.given)

C6_FailsBeforeAnyDirectory ==
  (last.op = "HostInit" /\ error = "FatalError") =>
    /\ kind = "failed"
    /\ hostdirs = {}
    /\ logpath = <<>>

\* C7: after WriteLines(path, lines) on a path CreateFile returned, the file at path
\* holds exactly the given lines in order, each followed by one line terminator, and
\* nothing of what earlier calls wrote.
C7_WriteLinesContent ==
  (last.op = "WriteLines" /\ error = "") =>
    /\ last.path \in DOMAIN Files
    /\ ReadLines(Files[last.path]) = last.lines

C7_Witness ==
  /\ last.op = "WriteLines"
  /\ kind = "device"
  /\ last.path \in DOMAIN last.prior
  /\ Len(last.prior[last.path]) > Len(Files[last.path])
  /\ Len(last.lines) = 1

\* C8: the file a CreateFile call allocates, with or without an explicit name, does not
\* collide with a file an earlier CreateFile call of the instance created: the
\* returned path differs from every path returned before and no file that existed is
\* truncated or replaced.
C8_NoCollision ==
  (last.op = "CreateFile" /\ error = "") =>
    /\ last.path \notin last.earlier
    /\ \A p \in DOMAIN last.prior : p \in DOMAIN Files /\ Files[p] = last.prior[p]

\* C9: on a device environment the path CreateFile returns, with an explicit name and
\* with none, is inside the remote scratch directory and is the path at which the
\* pushed, empty file exists on the device.
C9_ReturnedPathExists ==
  (kind = "device" /\ last.op = "CreateFile") =>
    /\ IsPrefix(DeviceEnvPath, last.path)
    /\ last.pushed = last.path
    /\ last.path \in DOMAIN devfiles
    /\ devfiles[last.path] = <<>>

\* C10: a RunCommand call leaves the caller's override map and the stored base shell
\* environment as they were, on host and device.
C10_CallLeavesInputsUnchanged ==
  last.op = "RunCommand" =>
    /\ last.after = last.given
    /\ kind = "device" => shell_env = osenv

====
